---- MODULE Spec2Model ----
(***************************************************************************)
(* Model of the ASM backend server (src/server.py): the MonitorManager     *)
(* (monitor store, scheduler thread, event log), save_json's               *)
(* write-temp-then-replace persistence, and the /api/meta enrichment       *)
(* path.  Two threads act on the monitor store: the scheduler thread       *)
(* ("sched", MonitorManager._runner) and one request-handler thread        *)
(* ("http", one request in flight at a time).  The store has no lock, so   *)
(* the steps of the two threads interleave.                                *)
(*                                                                         *)
(* Time is a monotonic clock in units of 30 minutes; now_iso() and         *)
(* parse_iso() are the identity on clock values (second-granular           *)
(* timestamps round-trip through the ISO format).  Hostnames are numbered  *)
(* in lexicographic order, so sorted() is the ascending sequence.          *)
(***************************************************************************)
EXTENDS Integers, Sequences, FiniteSets, TLC

VARIABLES
    clock,          \* wall clock, in units of 30 minutes
    monitors,       \* self.state["monitors"]: insertion-ordered dict, as a sequence of [domain, m]
    file,           \* content of monitors.json
    tmp,            \* content of monitors.json.tmp
    fh,             \* per thread: where the inode of its open file handle lives
    pc,             \* per thread: position in its code
    items,          \* _tick: the remaining part of list(monitors.items())
    cur,            \* _tick: the (domain, m) pair of the current iteration
    all_subs,       \* _tick: the set found by the current scan
    new_assets,     \* _tick: sorted(found - prev) of the current iteration
    pre,            \* _tick: the value m had when the scan returned, before the update
    recent_events,  \* self.recent_events
    next_id,        \* number of add_event calls so far (identifies an event)
    expect,         \* per domain: what the requests alone, applied in order, make of the record
    reqs,           \* number of requests handled so far
    scans,          \* number of scans started so far
    fails,          \* number of persistence failures injected so far
    lost,           \* the (domain, host) pairs a scan found new and whose persist failed,
                    \* not reported in an event since
    since,          \* /api/monitor/updates: the since parameter of the last poll
    events,         \* /api/monitor/updates: the events the last poll returned
    received,       \* the ids of the events the polling client has received
    cursor,         \* the timestamp of the last event the polling client received
    polls,          \* number of polls so far
    shared,         \* whether the list the last poll returned is the log's own list object
    hosts,          \* /api/meta: the hosts array of the request
    ordered_hosts,  \* /api/meta: the deduplicated hosts
    slots,          \* asyncio.gather: per task, its result once it has completed
    completed,      \* the tasks in the order in which they completed
    results,        \* /api/meta: the response
    meta_pc,        \* /api/meta: position of the handler
    hosts_is_list,  \* /api/meta: whether the payload's hosts value is a list
    attempts,       \* per task, the client.get calls it has made, with their outcome
    crt_raw,        \* _scan_domain: what crt.sh answered
    wb_raw,         \* _scan_domain: what the Wayback CDX API answered
    sf_raw,         \* _scan_domain: how the subfinder run went
    discovered,     \* _scan_domain: its outcome
    fp_input,       \* fingerprint_from: the headers and the text
    techs,          \* fingerprint_from: the matches in matcher order
    unique,         \* fingerprint_from: its outcome
    payload,        \* POST /api/monitor: the payload of the request being handled
    at_wake         \* for the tick in progress: the monitors' enabled at its wake

feed_vars == <<since, events, received, cursor, polls, shared>>
meta_vars == <<hosts, ordered_hosts, slots, completed, results, meta_pc, hosts_is_list,
               attempts>>

disc_vars == <<crt_raw, wb_raw, sf_raw, discovered>>
fp_vars == <<fp_input, techs, unique>>
pure_vars == <<disc_vars, fp_vars>>
aux_vars == <<pure_vars, payload, at_wake>>

vars == <<clock, monitors, file, tmp, fh, pc, items, cur, all_subs, new_assets, pre,
          recent_events, next_id, expect, reqs, scans, lost, fails, feed_vars, meta_vars,
          aux_vars>>

----------------------------------------------------------------------------
(* Bounds of the model *)

NumHosts == 3
MaxTime == 2
MaxReqs == 2
MaxScans == 2
MaxFails == 1
MaxRaceReqs == 3
MaxRaceScans == 2
MaxAppends == 202       \* events appended in SpecCap
MaxFeedEvents == 3      \* events appended in SpecFeed
MaxPolls == 3           \* polls in SpecFeed
NumNames == 2           \* distinct host names of an enrichment request
MaxHosts == 3           \* length of the hosts array of an enrichment request
MaxPostReqs == 3        \* requests in SpecPost
MaxPostScans == 1       \* scans in SpecPost
MaxMarkers == 2         \* markers in the text of a fingerprinted page
MaxEntries == 2         \* entries of a discovery source's response
MaxLockPolls == 1       \* polls in SpecLock
MaxSeqReqs == 3         \* requests in SpecSeq
MaxSeqScans == 2        \* scans in SpecSeq
MaxSeqPolls == 1        \* polls in SpecSeq
MaxLiveReqs == 2        \* requests in SpecLive
MaxLiveFails == 1       \* persistence failures in SpecLive
MaxLogLen == 3          \* entries of the log in SpecSince

(* Constants of the program *)

None == -1
DefaultIntervalHours == 12
RecentEventsCap == 200
MaxHostsPerRequest == 200
MissingIndex == 1000000000
TicksPerHour == 2
Unparseable == -2

Domains == {"d1.com", "d2.com", "a-.com"}
Hosts == 1..NumHosts
Threads == {"sched", "http"}

\* interval_hours of a request payload: absent, an integer, or not convertible by int()
IntervalInputs == {[kind |-> "none", val |-> 0], [kind |-> "int", val |-> 0],
                   [kind |-> "int", val |-> 1], [kind |-> "bad", val |-> 0],
                   [kind |-> "int", val |-> -1]}

NoInterval == [kind |-> "none", val |-> 0]

\* the since parameter of a poll: absent, a timestamp, or not in the ISO format
NoSince == [kind |-> "none", val |-> 0]
BadSince == [kind |-> "bad", val |-> 0]
Since(t) == [kind |-> "ts", val |-> t]

\* no POST /api/monitor is being handled
NoPayload == [domain |-> "", enabled |-> FALSE, interval_hours |-> NoInterval]

\* a source that has not been asked
NoResponse == [kind |-> "none", returncode |-> 0, entries |-> <<>>]

\* a page that has not been fetched
NoPage == [server |-> "none"]

----------------------------------------------------------------------------
(* Utilities *)

Range(s) == {s[i] : i \in 1..Len(s)}

RECURSIVE sorted(_)
sorted(S) ==
    IF S = {} THEN <<>>
    ELSE LET lo == CHOOSE x \in S : \A y \in S : x <= y
         IN <<lo>> \o sorted(S \ {lo})

now_iso == clock

(* The monitors dict *)

Keys(mons) == {mons[i].domain : i \in 1..Len(mons)}
IndexOf(mons, d) == CHOOSE i \in 1..Len(mons) : mons[i].domain = d
Get(mons, d) == mons[IndexOf(mons, d)].m
Put(mons, d, m) ==
    IF d \in Keys(mons) THEN [mons EXCEPT ![IndexOf(mons, d)].m = m]
    ELSE Append(mons, [domain |-> d, m |-> m])
Del(mons, d) == SelectSeq(mons, LAMBDA e : e.domain # d)

NewMonitor(now) ==
    [enabled |-> FALSE, interval_hours |-> DefaultIntervalHours, last_run |-> None,
     last_results |-> <<>>, last_new |-> <<>>, created_at |-> now, updated_at |-> now]

(* A (domain, m) pair of the scheduler's snapshot.  m is a reference: alias  *)
(* says that it is still the object the store holds under the key; once the  *)
(* key has been deleted the scheduler alone holds the object, with value m.  *)
NoM == NewMonitor(0)
NoCur == [domain |-> "", alias |-> TRUE, m |-> NoM]
Resolve(e) == IF e.alias THEN Get(monitors, e.domain) ELSE e.m
Detach(e, d) ==
    IF e.domain = d /\ e.alias THEN [e EXCEPT !.alias = FALSE, !.m = Get(monitors, d)] ELSE e

(* File contents *)

NoFile == [exists |-> FALSE, content |-> "none", data |-> <<>>]
Empty == [exists |-> TRUE, content |-> "empty", data |-> <<>>]
Garbled == [exists |-> TRUE, content |-> "garbled", data |-> <<>>]
Dump(mons) == [exists |-> TRUE, content |-> "complete", data |-> mons]

----------------------------------------------------------------------------
Init ==
    /\ clock = 0
    /\ monitors = <<>>
    /\ file = NoFile
    /\ tmp = NoFile
    /\ fh = [t \in Threads |-> "none"]
    /\ pc = [t \in Threads |-> IF t = "sched" THEN "sleep" ELSE "idle"]
    /\ items = <<>>
    /\ cur = NoCur
    /\ all_subs = {}
    /\ new_assets = <<>>
    /\ pre = NoM
    /\ recent_events = <<>>
    /\ next_id = 1
    /\ expect = [d \in Domains |-> [present |-> FALSE, enabled |-> FALSE, interval_hours |-> 0]]
    /\ reqs = 0
    /\ scans = 0
    /\ fails = 0
    /\ lost = {}
    /\ since = NoSince
    /\ events = <<>>
    /\ received = {}
    /\ cursor = None
    /\ polls = 0
    /\ shared = FALSE
    /\ hosts = <<>>
    /\ ordered_hosts = <<>>
    /\ slots = <<>>
    /\ completed = <<>>
    /\ results = <<>>
    /\ meta_pc = "idle"
    /\ hosts_is_list = TRUE
    /\ attempts = <<>>
    /\ crt_raw = NoResponse
    /\ wb_raw = NoResponse
    /\ sf_raw = NoResponse
    /\ discovered = [status |-> "none", hosts |-> <<>>]
    /\ fp_input = NoPage
    /\ techs = <<>>
    /\ unique = [status |-> "none", technologies |-> <<>>]
    /\ payload = NoPayload
    /\ at_wake = <<>>

----------------------------------------------------------------------------
(* save_json(path, data): open(tmp, "w"), json.dump, close, os.replace(tmp,  *)
(* path), as the steps of thread t.  open truncates the file at the tmp      *)
(* path (the same inode for every writer until a replace moves it); the      *)
(* dump is written through the handle, wherever its inode is by then.        *)

sched_locals == <<items, cur, all_subs, new_assets, pre>>
ghosts == <<expect, reqs, scans, lost>>

\* an exception that ends the thread it is raised in
Raise_fatal(t) ==
    /\ pc' = [pc EXCEPT ![t] = "dead"]
    /\ IF t = "sched"
       THEN /\ items' = <<>>
            /\ cur' = NoCur
            /\ all_subs' = {}
            /\ new_assets' = <<>>
            /\ pre' = NoM
       ELSE UNCHANGED sched_locals
    /\ at_wake' = IF t = "sched" THEN <<>> ELSE at_wake
    /\ payload' = IF t = "http" THEN NoPayload ELSE payload
    /\ lost' = IF t = "sched"
               THEN lost \cup {<<cur.domain, new_assets[i]>> : i \in 1..Len(new_assets)}
               ELSE lost

\* an exception leaves save_json: _runner catches it and the tick is over;
\* in a request handler it ends the request
Raise(t) ==
    /\ pc' = [pc EXCEPT ![t] = IF t = "sched" THEN "sleep" ELSE "idle"]
    /\ IF t = "sched"
       THEN /\ items' = <<>>
            /\ cur' = NoCur
            /\ all_subs' = {}
            /\ new_assets' = <<>>
            /\ pre' = NoM
       ELSE UNCHANGED sched_locals
    /\ at_wake' = IF t = "sched" THEN <<>> ELSE at_wake
    /\ payload' = IF t = "http" THEN NoPayload ELSE payload
    /\ lost' = IF t = "sched"
               THEN lost \cup {<<cur.domain, new_assets[i]>> : i \in 1..Len(new_assets)}
               ELSE lost

\* what a dump leaves in a file that holds c: the handle writes from offset 0, so
\* bytes another writer left since the truncation survive where they reach further
Written(c, mons) ==
    IF c = Empty \/ c = Dump(mons) THEN {Dump(mons)} ELSE {Dump(mons), Garbled}

save_open(t) ==
    /\ pc[t] = "open"
    /\ tmp' = Empty
    /\ fh' = [fh EXCEPT ![t] = "tmp"]
    /\ pc' = [pc EXCEPT ![t] = "write"]
    /\ UNCHANGED <<clock, monitors, file, sched_locals, recent_events, next_id, ghosts, fails>>
    /\ UNCHANGED <<feed_vars, meta_vars, aux_vars>>

save_write(t) ==
    /\ pc[t] = "write"
    /\ \/ /\ fh[t] = "tmp"
          /\ tmp' \in Written(tmp, monitors)
          /\ file' = file
       \/ /\ fh[t] = "path"
          /\ file' \in Written(file, monitors)
          /\ tmp' = tmp
       \/ /\ fh[t] = "gone"
          /\ UNCHANGED <<file, tmp>>
    /\ fh' = [fh EXCEPT ![t] = "none"]
    /\ pc' = [pc EXCEPT ![t] = "replace"]
    /\ UNCHANGED <<clock, monitors, sched_locals, recent_events, next_id, ghosts, fails>>
    /\ UNCHANGED <<feed_vars, meta_vars, aux_vars>>

\* the write fails (disk full, or the dict changed size while json.dump iterated it)
save_write_fails(t) ==
    /\ pc[t] = "write"
    /\ fails' = fails + 1
    /\ fh' = [fh EXCEPT ![t] = "none"]
    /\ Raise(t)
    /\ UNCHANGED <<clock, monitors, file, tmp, recent_events, next_id, expect, reqs, scans>>
    /\ UNCHANGED <<feed_vars, meta_vars, pure_vars>>

save_replace(t) ==
    /\ pc[t] = "replace"
    /\ tmp.exists
    /\ file' = tmp
    /\ tmp' = NoFile
    /\ fh' = [u \in Threads |-> IF fh[u] = "tmp" THEN "path"
                                ELSE IF fh[u] = "path" THEN "gone" ELSE fh[u]]
    /\ pc' = [pc EXCEPT ![t] = IF t = "sched" THEN "event" ELSE "idle"]
    /\ UNCHANGED <<clock, monitors, sched_locals, recent_events, next_id, ghosts, fails>>
    /\ payload' = IF t = "http" THEN NoPayload ELSE payload
    /\ UNCHANGED <<feed_vars, meta_vars, pure_vars, at_wake>>

\* os.replace raises FileNotFoundError: another writer's replace took the tmp file
save_replace_fails(t) ==
    /\ pc[t] = "replace"
    /\ ~tmp.exists
    /\ Raise(t)
    /\ UNCHANGED <<clock, monitors, file, tmp, fh, recent_events, next_id, expect, reqs, scans,
                   fails>>
    /\ UNCHANGED <<feed_vars, meta_vars, pure_vars>>

----------------------------------------------------------------------------
(* MonitorManager.set_monitor and delete_monitor, called by the request      *)
(* handlers (handle_monitor_post, handle_monitor_delete)                     *)

\* an interval stored as given, whatever its sign
IntervalAfter_unchecked(old, ih) ==
    IF ih.kind = "int" THEN ih.val ELSE old

IntervalAfter(old, ih) ==
    IF ih.kind = "int"
    THEN IF ih.val <= 0 THEN DefaultIntervalHours ELSE ih.val
    ELSE old

\* an upsert that also forgets when the monitor last ran
upserted_rescheduled(m0, enabled, interval_hours, now) ==
    [m0 EXCEPT !.enabled = enabled,
               !.interval_hours = IntervalAfter(m0.interval_hours, interval_hours),
               !.last_run = None,
               !.updated_at = now]

\* lines 140-148: the record m0 after the upsert
upserted(m0, enabled, interval_hours, now) ==
    [m0 EXCEPT !.enabled = enabled,
               !.interval_hours = IntervalAfter(m0.interval_hours, interval_hours),
               !.updated_at = now]

set_monitor(domain, enabled, interval_hours) ==
    /\ pc["http"] = "idle"
    /\ LET m0 == IF domain \in Keys(monitors) THEN Get(monitors, domain)
                 ELSE NewMonitor(now_iso)
       IN monitors' = Put(monitors, domain, upserted(m0, enabled, interval_hours, now_iso))
    /\ expect' = [expect EXCEPT ![domain] =
                    [present |-> TRUE, enabled |-> enabled,
                     interval_hours |->
                        IntervalAfter(IF expect[domain].present
                                      THEN expect[domain].interval_hours
                                      ELSE DefaultIntervalHours, interval_hours)]]
    /\ reqs' = reqs + 1
    /\ pc' = [pc EXCEPT !["http"] = "open"]
    /\ UNCHANGED <<clock, file, tmp, fh, sched_locals, recent_events, next_id, scans, lost,
                   fails>>
    /\ UNCHANGED <<feed_vars, meta_vars, pure_vars, at_wake>>

\* a delete that also drops the events logged for the domain
delete_monitor_purging(domain) ==
    /\ pc["http"] = "idle"
    /\ reqs' = reqs + 1
    /\ IF domain \in Keys(monitors)
       THEN /\ monitors' = Del(monitors, domain)
            /\ items' = [i \in 1..Len(items) |-> Detach(items[i], domain)]
            /\ cur' = Detach(cur, domain)
            /\ expect' = [expect EXCEPT ![domain] =
                            [present |-> FALSE, enabled |-> FALSE, interval_hours |-> 0]]
            /\ pc' = [pc EXCEPT !["http"] = "open"]
            /\ recent_events' = SelectSeq(recent_events, LAMBDA e : e.domain # domain)
       ELSE UNCHANGED <<monitors, items, cur, expect, pc, recent_events>>
    /\ UNCHANGED <<clock, file, tmp, fh, all_subs, new_assets, pre, next_id, scans, lost,
                   fails>>
    /\ UNCHANGED <<feed_vars, meta_vars, aux_vars>>

delete_monitor(domain) ==
    /\ pc["http"] = "idle"
    /\ reqs' = reqs + 1
    /\ IF domain \in Keys(monitors)
       THEN /\ monitors' = Del(monitors, domain)
            /\ items' = [i \in 1..Len(items) |-> Detach(items[i], domain)]
            /\ cur' = Detach(cur, domain)
            /\ expect' = [expect EXCEPT ![domain] =
                            [present |-> FALSE, enabled |-> FALSE, interval_hours |-> 0]]
            /\ pc' = [pc EXCEPT !["http"] = "open"]
       ELSE UNCHANGED <<monitors, items, cur, expect, pc>>
    /\ UNCHANGED <<clock, file, tmp, fh, all_subs, new_assets, pre, recent_events, next_id,
                   scans, lost, fails>>
    /\ UNCHANGED <<feed_vars, meta_vars, aux_vars>>

----------------------------------------------------------------------------
(* POST /api/monitor: handle_monitor_post.  labels_of gives the text of a    *)
(* domain, label by label and character by character: "a" a letter, "9" a    *)
(* digit, "-" a hyphen.                                                      *)

PostDomains == {"", "d1.com", "a-.com", "-a.com", "d1.c0m"}

labels_of(domain) ==
    CASE domain = "" -> <<>>
      [] domain = "d1.com" -> << <<"a", "9">>, <<"a", "a", "a">> >>
      [] domain = "d2.com" -> << <<"a", "9">>, <<"a", "a", "a">> >>
      [] domain = "a-.com" -> << <<"a", "-">>, <<"a", "a", "a">> >>
      [] domain = "-a.com" -> << <<"-", "a">>, <<"a", "a", "a">> >>
      [] domain = "d1.c0m" -> << <<"a", "9">>, <<"a", "9", "a">> >>

\* re.match of line 531: one label [a-zA-Z0-9][a-zA-Z0-9-]{0,61}[a-zA-Z0-9]? and
\* then one or two labels [a-zA-Z]{2,}
domain_re_match(domain) ==
    LET ls == labels_of(domain)
        alnum == {"a", "9"}
    IN /\ Len(ls) \in {2, 3}
       /\ Len(ls[1]) \in 1..63
       /\ ls[1][1] \in alnum
       /\ \A k \in 2..Len(ls[1]) : ls[1][k] \in alnum \cup {"-"}
       /\ Len(ls[1]) = 63 => ls[1][63] \in alnum
       /\ \A i \in 2..Len(ls) : /\ Len(ls[i]) >= 2
                                /\ \A k \in 1..Len(ls[i]) : ls[i][k] = "a"

\* domain, enabled, interval_hours: the payload's values after strip().lower() and bool()
handle_monitor_post(domain, enabled, interval_hours) ==
    IF domain = "" \/ ~domain_re_match(domain)
    THEN /\ pc["http"] = "idle"
         /\ reqs' = reqs + 1
         /\ UNCHANGED <<clock, monitors, file, tmp, fh, pc, sched_locals, recent_events,
                        next_id, expect, scans, lost, fails, feed_vars, meta_vars, aux_vars>>
    ELSE /\ payload' = [domain |-> domain, enabled |-> enabled,
                        interval_hours |-> interval_hours]
         /\ set_monitor(domain, enabled, interval_hours)

----------------------------------------------------------------------------
(* MonitorManager.add_event *)

\* a log that, once full, drops the new event and not the oldest
add_event_keep_oldest(log, id, domain, assets, now) ==
    LET evt == [type |-> "new_assets", domain |-> domain, count |-> Len(assets),
                new_subdomains |-> assets, timestamp |-> now, id |-> id]
        appended == Append(log, evt)
    IN IF Len(appended) > RecentEventsCap
       THEN SubSeq(appended, 1, RecentEventsCap)
       ELSE appended

\* a log that keeps the newest event in front
add_event_newest_first(log, id, domain, assets, now) ==
    LET evt == [type |-> "new_assets", domain |-> domain, count |-> Len(assets),
                new_subdomains |-> assets, timestamp |-> now, id |-> id]
        appended == <<evt>> \o log
    IN IF Len(appended) > RecentEventsCap
       THEN SubSeq(appended, 1, RecentEventsCap)
       ELSE appended

add_event(log, id, domain, assets, now) ==
    LET evt == [type |-> "new_assets", domain |-> domain, count |-> Len(assets),
                new_subdomains |-> assets, timestamp |-> now, id |-> id]
        appended == Append(log, evt)
    IN IF Len(appended) > RecentEventsCap
       THEN SubSeq(appended, Len(appended) - RecentEventsCap + 1, Len(appended))
       ELSE appended

----------------------------------------------------------------------------
(* The scheduler thread: MonitorManager._runner and _tick *)

\* the interval must be exceeded, not reached
Due_strict(m, now) ==
    \/ m.last_run = None
    \/ now - m.last_run > m.interval_hours * TicksPerHour

Due(m, now) ==
    LET interval_hours == IF m.interval_hours = 0 THEN DefaultIntervalHours
                          ELSE m.interval_hours
    IN \/ m.last_run = None
       \/ now - m.last_run >= interval_hours * TicksPerHour

\* _runner wakes and calls _tick: nothing to do for an empty store, else the
\* loop starts over a snapshot of the items
runner_wake ==
    /\ pc["sched"] = "sleep"
    /\ monitors # <<>>
    /\ items' = [i \in 1..Len(monitors) |->
                    [domain |-> monitors[i].domain, alias |-> TRUE, m |-> NoM]]
    /\ pc' = [pc EXCEPT !["sched"] = "loop"]
    /\ UNCHANGED <<clock, monitors, file, tmp, fh, cur, all_subs, new_assets, pre,
                   recent_events, next_id, ghosts, fails>>
    /\ at_wake' = [i \in 1..Len(monitors) |->
                      [domain |-> monitors[i].domain, enabled |-> monitors[i].m.enabled]]
    /\ UNCHANGED <<feed_vars, meta_vars, pure_vars, payload>>

\* the loop is over: _tick returns and _runner waits for the next wake
tick_return ==
    /\ pc["sched"] = "loop"
    /\ items = <<>>
    /\ pc' = [pc EXCEPT !["sched"] = "sleep"]
    /\ UNCHANGED <<clock, monitors, file, tmp, fh, sched_locals, recent_events, next_id,
                   ghosts, fails>>
    /\ at_wake' = <<>>
    /\ UNCHANGED <<feed_vars, meta_vars, pure_vars, payload>>

\* the next item is disabled or not due: continue
tick_skip ==
    /\ pc["sched"] = "loop"
    /\ items # <<>>
    /\ LET m == Resolve(Head(items)) IN ~m.enabled \/ ~Due(m, clock)
    /\ items' = Tail(items)
    /\ UNCHANGED <<clock, monitors, file, tmp, fh, pc, cur, all_subs, new_assets, pre,
                   recent_events, next_id, ghosts, fails>>
    /\ UNCHANGED <<feed_vars, meta_vars, aux_vars>>

\* a scheduler that goes on to the next due item as soon as a scan is persisted
tick_scan_eager ==
    /\ pc["sched"] \in {"loop", "event"}
    /\ items # <<>>
    /\ LET m == Resolve(Head(items)) IN m.enabled /\ Due(m, clock)
    /\ cur' = Head(items)
    /\ items' = Tail(items)
    /\ pc' = [pc EXCEPT !["sched"] = "scan"]
    /\ UNCHANGED <<clock, monitors, file, tmp, fh, all_subs, new_assets, pre,
                   recent_events, next_id, expect, reqs, lost, fails>>
    /\ UNCHANGED <<feed_vars, meta_vars, aux_vars>>

\* the next item is due: _scan_domain is called (the next-state relations
\* count the scans, in scans)
tick_scan ==
    /\ pc["sched"] = "loop"
    /\ items # <<>>
    /\ LET m == Resolve(Head(items)) IN m.enabled /\ Due(m, clock)
    /\ cur' = Head(items)
    /\ items' = Tail(items)
    /\ pc' = [pc EXCEPT !["sched"] = "scan"]
    /\ UNCHANGED <<clock, monitors, file, tmp, fh, all_subs, new_assets, pre,
                   recent_events, next_id, expect, reqs, lost, fails>>
    /\ UNCHANGED <<feed_vars, meta_vars, aux_vars>>

\* _scan_domain raises (crt.sh answered null, see fetch_crt_subdomains): the
\* exception leaves _tick
tick_scan_raises ==
    /\ pc["sched"] = "scan"
    /\ Raise("sched")
    /\ UNCHANGED <<clock, monitors, file, tmp, fh, recent_events, next_id, expect, reqs, scans,
                   fails>>
    /\ UNCHANGED <<feed_vars, meta_vars, pure_vars>>

\* the diff forgotten: everything found is reported as new
NewAssets_undiffed(m, found) == sorted(found)

\* prev = set(m.get("last_results") or []); new_assets = sorted(found - prev)
NewAssets(m, found) == sorted(found \ Range(m.last_results))

\* last_results kept monotonic: the union with the earlier results
Scanned_union(m, found, now) ==
    [m EXCEPT !.last_run = now,
              !.last_results = sorted(found \cup Range(m.last_results)),
              !.last_new = NewAssets(m, found),
              !.updated_at = now]

\* the record after the scan found the set `found`
Scanned(m, found, now) ==
    [m EXCEPT !.last_run = now,
              !.last_results = sorted(found),
              !.last_new = NewAssets(m, found),
              !.updated_at = now]

\* _scan_domain returns; the diff is taken, m is updated and stored under its key
tick_update(found) ==
    /\ pc["sched"] = "scan"
    /\ LET m == Resolve(cur)
       IN /\ pre' = m
          /\ all_subs' = found
          /\ new_assets' = NewAssets(m, found)
          /\ monitors' = Put(monitors, cur.domain, Scanned(m, found, now_iso))
    /\ cur' = [cur EXCEPT !.alias = TRUE, !.m = NoM]
    /\ pc' = [pc EXCEPT !["sched"] = "open"]
    /\ UNCHANGED <<clock, file, tmp, fh, items, recent_events, next_id, ghosts, fails>>
    /\ UNCHANGED <<feed_vars, meta_vars, aux_vars>>

\* an event appended after every scan, whether it found new assets or not
tick_event_every_scan ==
    /\ pc["sched"] = "event"
    /\ recent_events' = add_event(recent_events, next_id, cur.domain, new_assets, now_iso)
    /\ next_id' = next_id + 1
    /\ lost' = lost \ {<<cur.domain, new_assets[i]>> : i \in 1..Len(new_assets)}
    /\ cur' = NoCur
    /\ all_subs' = {}
    /\ new_assets' = <<>>
    /\ pre' = NoM
    /\ pc' = [pc EXCEPT !["sched"] = "loop"]
    /\ UNCHANGED <<clock, monitors, file, tmp, fh, items, expect, reqs, scans, fails>>
    /\ UNCHANGED <<feed_vars, meta_vars, aux_vars>>

\* after save_json: add_event when there are new assets; then the next item
tick_event ==
    /\ pc["sched"] = "event"
    /\ IF new_assets # <<>>
       THEN /\ recent_events' = add_event(recent_events, next_id, cur.domain, new_assets, now_iso)
            /\ next_id' = next_id + 1
            /\ lost' = lost \ {<<cur.domain, new_assets[i]>> : i \in 1..Len(new_assets)}
       ELSE UNCHANGED <<recent_events, next_id, lost>>
    /\ cur' = NoCur
    /\ all_subs' = {}
    /\ new_assets' = <<>>
    /\ pre' = NoM
    /\ pc' = [pc EXCEPT !["sched"] = "loop"]
    /\ UNCHANGED <<clock, monitors, file, tmp, fh, items, expect, reqs, scans, fails>>
    /\ UNCHANGED <<feed_vars, meta_vars, aux_vars>>

\* time passes
clock_tick ==
    /\ clock < MaxTime
    /\ clock' = clock + 1
    /\ UNCHANGED <<monitors, file, tmp, fh, pc, sched_locals, recent_events, next_id,
                   ghosts, fails>>
    /\ UNCHANGED <<feed_vars, meta_vars, aux_vars>>

----------------------------------------------------------------------------
(* The event log read side: MonitorManager.get_events_since, called by       *)
(* handle_monitor_updates_get.  Both add_event's append and this read run    *)
(* under recent_lock, so each is one step.  The timestamps of the log come   *)
(* from now_iso() and always parse; get_events_since also provides for a     *)
(* timestamp that does not (Unparseable).                                    *)

parse_iso(ts) == ts.val

get_events_since_inclusive(log, since_iso) ==
    IF since_iso.kind = "none" THEN log
    ELSE IF since_iso.kind = "bad" THEN log
    ELSE SelectSeq(log, LAMBDA e : \/ e.timestamp = Unparseable
                                   \/ e.timestamp >= parse_iso(since_iso))

\* a read that gives nothing for a since it cannot parse, and leaves out the
\* events whose timestamp it cannot parse
get_events_since_parsed_only(log, since_iso) ==
    IF since_iso.kind = "none" THEN log
    ELSE IF since_iso.kind = "bad" THEN <<>>
    ELSE SelectSeq(log, LAMBDA e : /\ e.timestamp # Unparseable
                                   /\ e.timestamp > parse_iso(since_iso))

\* lines 178-191: everything for no since or one that does not parse; else the
\* events later than since, and those whose timestamp does not parse
get_events_since(log, since_iso) ==
    IF since_iso.kind = "none" THEN log
    ELSE IF since_iso.kind = "bad" THEN log
    ELSE SelectSeq(log, LAMBDA e : \/ e.timestamp = Unparseable
                                   \/ e.timestamp > parse_iso(since_iso))

\* list(self.recent_events), and the out list of the loop: a new list object
\* with the entries of the log
list_copy(log) == [shared |-> FALSE, entries |-> log]

\* one GET /api/monitor/updates?since=..., and the client keeping what it got
handle_monitor_updates_get(s) ==
    /\ since' = s
    /\ events' = list_copy(get_events_since(recent_events, s)).entries
    /\ shared' = list_copy(get_events_since(recent_events, s)).shared
    /\ received' = received \cup {events'[i].id : i \in 1..Len(events')}
    /\ cursor' = IF events' # <<>> THEN events'[Len(events')].timestamp ELSE cursor
    /\ polls' = polls + 1
    /\ UNCHANGED <<clock, monitors, file, tmp, fh, pc, sched_locals, recent_events,
                   next_id, ghosts, fails, meta_vars, aux_vars>>

\* get_events_since(since) on a log given as it is, entry by entry: the
\* timestamps of its entries, in log order
log_of(stamps) ==
    [i \in 1..Len(stamps) |->
        [type |-> "new_assets", domain |-> "d1.com", count |-> 1, new_subdomains |-> <<1>>,
         timestamp |-> stamps[i], id |-> i]]

get_events_since_of(stamps, s) ==
    /\ recent_events' = log_of(stamps)
    /\ next_id' = Len(stamps) + 1
    /\ since' = s
    /\ events' = list_copy(get_events_since(log_of(stamps), s)).entries
    /\ shared' = list_copy(get_events_since(log_of(stamps), s)).shared
    /\ received' = {events'[i].id : i \in 1..Len(events')}
    /\ cursor' = IF events' # <<>> THEN events'[Len(events')].timestamp ELSE cursor
    /\ polls' = polls + 1
    /\ UNCHANGED <<clock, monitors, file, tmp, fh, pc, sched_locals, ghosts, fails,
                   meta_vars, aux_vars>>

\* the add_event call of a tick, taken alone
emit_event(domain, assets) ==
    /\ recent_events' = add_event(recent_events, next_id, domain, assets, now_iso)
    /\ next_id' = next_id + 1
    /\ UNCHANGED <<clock, monitors, file, tmp, fh, pc, sched_locals, ghosts, fails,
                   feed_vars, meta_vars, aux_vars>>

(* add_event and get_events_since step by step.  recent_lock is held by the  *)
(* scheduler thread from its acquisition to the end of the with block, that  *)
(* is while it is about to append or to trim; get_events_since holds it for  *)
(* the whole read, which is one step.  list.append changes the list object   *)
(* in place; the slice of line 174 binds self.recent_events to a new list.   *)

\* a reader that does not take the lock
recent_lock_not_taken == TRUE

\* the reader can acquire recent_lock
recent_lock_free == pc["sched"] \notin {"append", "trim"}

\* lines 164-171: the event is built and the lock acquired
add_event_acquire ==
    /\ pc["sched"] = "sleep"
    /\ pc' = [pc EXCEPT !["sched"] = "append"]
    /\ UNCHANGED <<clock, monitors, file, tmp, fh, sched_locals, recent_events, next_id,
                   ghosts, fails, feed_vars, meta_vars, aux_vars>>

\* line 172
add_event_append(domain, assets) ==
    /\ pc["sched"] = "append"
    /\ recent_events' = Append(recent_events,
                               [type |-> "new_assets", domain |-> domain, count |-> Len(assets),
                                new_subdomains |-> assets, timestamp |-> now_iso, id |-> next_id])
    /\ next_id' = next_id + 1
    /\ events' = IF shared THEN recent_events' ELSE events
    /\ pc' = [pc EXCEPT !["sched"] = "trim"]
    /\ UNCHANGED <<clock, monitors, file, tmp, fh, sched_locals, ghosts, fails,
                   since, received, cursor, polls, shared, meta_vars, aux_vars>>

\* lines 173-174, and the lock released
add_event_trim ==
    /\ pc["sched"] = "trim"
    /\ IF Len(recent_events) > RecentEventsCap
       THEN /\ recent_events' = SubSeq(recent_events, Len(recent_events) - RecentEventsCap + 1,
                                       Len(recent_events))
            /\ shared' = FALSE
       ELSE UNCHANGED <<recent_events, shared>>
    /\ pc' = [pc EXCEPT !["sched"] = "sleep"]
    /\ UNCHANGED <<clock, monitors, file, tmp, fh, sched_locals, next_id, ghosts, fails,
                   since, events, received, cursor, polls, meta_vars, aux_vars>>

\* lines 177-191: the read under the lock
get_events_since_locked(s) ==
    /\ recent_lock_free
    /\ handle_monitor_updates_get(s)

----------------------------------------------------------------------------
(* POST /api/meta: handle_meta_api, fetch_metadata_for_hosts and             *)
(* fetch_one_host.  A host of the request is a name (0: the empty string)    *)
(* and whether it is written in upper case or padded with blanks.            *)

RawHosts == [name : 0..NumNames, raw : BOOLEAN]

\* h.strip().lower()
normalise(h) == [h EXCEPT !.raw = FALSE]

\* lines 616-624: first occurrences of the normalised, non-empty hosts (the
\* loop over hs, split in halves to keep the recursion shallow)
RECURSIVE dedup(_)
dedup(hs) ==
    IF hs = <<>> THEN <<>>
    ELSE IF Len(hs) = 1
         THEN IF normalise(hs[1]).name = 0 THEN <<>> ELSE <<normalise(hs[1])>>
         ELSE LET half == Len(hs) \div 2
                  front == dedup(SubSeq(hs, 1, half))
                  back == dedup(SubSeq(hs, half + 1, Len(hs)))
              IN front \o SelectSeq(back, LAMBDA h : h \notin Range(front))

NoResult == [host |-> [name |-> 0, raw |-> FALSE], url |-> <<>>, scheme |-> "pending",
             status_code |-> None, error |-> ""]

\* fetch_one_host: the schemes in the order in which they are tried
schemes == <<"https", "http">>

\* what one client.get and the processing of its response can come to: a
\* response; a response whose processing raises (a generator meta tag with
\* blank content, see fingerprint_from); an exception whose str() is empty (a
\* timeout) or a message
AttemptOutcomes ==
    {[kind |-> "response", status |-> 200, msg |-> ""],
     [kind |-> "unprocessable", status |-> 200, msg |-> "list index out of range"],
     [kind |-> "error", status |-> None, msg |-> ""],
     [kind |-> "error", status |-> None, msg |-> "connection refused"]}

\* fetch_one_host: the record returned from inside the loop
success_result(host, scheme, status) ==
    [host |-> host, url |-> <<scheme, host>>, scheme |-> scheme, status_code |-> status,
     error |-> ""]

\* fetch_one_host: the record returned after the loop
failure_result(host, error_msg) ==
    [host |-> host, url |-> <<>>, scheme |-> "", status_code |-> None, error |-> error_msg]

\* order_index.get(host, 10**9)
order_index(oh, h) ==
    IF \E i \in 1..Len(oh) : oh[i] = h
    THEN (CHOOSE i \in 1..Len(oh) : oh[i] = h /\ \A j \in (i+1)..Len(oh) : oh[j] # h) - 1
    ELSE MissingIndex

\* a stable sort by host name, not by position in ordered_hosts
RECURSIVE sort_results_by_name(_, _)
sort_results_by_name(rs, oh) ==
    IF rs = <<>> THEN <<>>
    ELSE LET rest == sort_results_by_name(SubSeq(rs, 1, Len(rs) - 1), oh)
             r == rs[Len(rs)]
             n == Cardinality({i \in 1..Len(rest) : rest[i].host.name <= r.host.name})
         IN SubSeq(rest, 1, n) \o <<r>> \o SubSeq(rest, n + 1, Len(rest))

\* results.sort(key=...): a stable sort by order_index
RECURSIVE sort_results(_, _)
sort_results(rs, oh) ==
    IF rs = <<>> THEN <<>>
    ELSE LET rest == sort_results(SubSeq(rs, 1, Len(rs) - 1), oh)
             r == rs[Len(rs)]
             k == order_index(oh, r.host)
             n == Cardinality({i \in 1..Len(rest) : order_index(oh, rest[i].host) <= k})
         IN SubSeq(rest, 1, n) \o <<r>> \o SubSeq(rest, n + 1, Len(rest))

\* a validation that lets a list of 201 hosts through
hosts_rejected_above_201(is_list, hs) ==
    ~is_list \/ hs = <<>> \/ Len(hs) > MaxHostsPerRequest + 1

\* lines 598 and 607: not a list, empty, or more than 200 entries
hosts_rejected(is_list, hs) ==
    ~is_list \/ hs = <<>> \/ Len(hs) > MaxHostsPerRequest

\* hs: the entries of the hosts value when it is a list, else none
handle_meta_api(is_list, hs) ==
    /\ meta_pc = "idle"
    /\ hosts' = hs
    /\ hosts_is_list' = is_list
    /\ IF hosts_rejected(is_list, hs)
       THEN /\ meta_pc' = "rejected"
            /\ UNCHANGED <<ordered_hosts, slots, attempts>>
       ELSE /\ ordered_hosts' = dedup(hs)
            /\ slots' = [i \in 1..Len(dedup(hs)) |-> NoResult]
            /\ attempts' = [i \in 1..Len(dedup(hs)) |-> <<>>]
            /\ meta_pc' = "gather"
    /\ UNCHANGED <<completed, results>>
    /\ UNCHANGED <<clock, monitors, file, tmp, fh, pc, sched_locals, recent_events,
                   next_id, ghosts, fails, feed_vars, aux_vars>>

\* fetch_one_host returns after the attempt: it got a response, or no scheme is left
last_attempt(i, out) ==
    out.kind = "response" \/ Len(attempts[i]) = Len(schemes) - 1

\* one iteration of the loop of task i: client.get(scheme://host) comes to out
fetch_one_host(i, out) ==
    /\ meta_pc = "gather"
    /\ i \in 1..Len(slots)
    /\ slots[i] = NoResult
    /\ LET scheme == schemes[Len(attempts[i]) + 1]
           host == ordered_hosts[i]
       IN /\ attempts' = [attempts EXCEPT ![i] =
                             Append(@, [scheme |-> scheme, kind |-> out.kind, msg |-> out.msg])]
          /\ IF last_attempt(i, out)
             THEN /\ slots' = [slots EXCEPT ![i] =
                                 IF out.kind = "response"
                                 THEN success_result(host, scheme, out.status)
                                 ELSE failure_result(host, out.msg)]
                  /\ completed' = Append(completed, i)
             ELSE UNCHANGED <<slots, completed>>
    /\ UNCHANGED <<hosts, ordered_hosts, results, meta_pc, hosts_is_list>>
    /\ UNCHANGED <<clock, monitors, file, tmp, fh, pc, sched_locals, recent_events,
                   next_id, ghosts, fails, feed_vars, aux_vars>>

\* asyncio.gather returns the results in task order; the handler sorts and answers
fetch_metadata_for_hosts ==
    /\ meta_pc = "gather"
    /\ \A i \in 1..Len(slots) : slots[i] # NoResult
    /\ results' = sort_results(slots, ordered_hosts)
    /\ meta_pc' = "responded"
    /\ UNCHANGED <<hosts, ordered_hosts, slots, completed, hosts_is_list, attempts>>
    /\ UNCHANGED <<clock, monitors, file, tmp, fh, pc, sched_locals, recent_events,
                   next_id, ghosts, fails, feed_vars, aux_vars>>

----------------------------------------------------------------------------
(* Subdomain discovery: MonitorManager._scan_domain and the three sources.   *)
(* A hostname as a source writes it is a record: its zone, the label in      *)
(* front of the zone (0: none, the host is the zone itself; labels are       *)
(* numbered in lexicographic order) and whether it has upper-case letters.   *)
(* "xd1.com" ends with "d1.com" but is neither "d1.com" nor under it.        *)
(* An entry of a response is a certificate (of one name), a CDX line or an   *)
(* output line; ok says that it has the form the source promises (a dict     *)
(* with a string name_value, a line urlparse accepts).                       *)

NamePool == {[zone |-> "d1.com", label |-> 1, upper |-> FALSE],
             [zone |-> "d1.com", label |-> 1, upper |-> TRUE],
             [zone |-> "d1.com", label |-> 2, upper |-> FALSE],
             [zone |-> "xd1.com", label |-> 1, upper |-> FALSE]}

Entries == {[ok |-> TRUE, name |-> n] : n \in NamePool} \cup
           {[ok |-> FALSE, name |-> [zone |-> "d1.com", label |-> 1, upper |-> FALSE]]}

EntryLists == UNION {[1..n -> Entries] : n \in 0..MaxEntries}

\* crt.sh: no answer, a page that is not JSON, JSON null, a JSON object, a JSON array
CrtResponses == {[kind |-> k, returncode |-> 0, entries |-> <<>>] :
                     k \in {"error", "html", "null", "object"}} \cup
                {[kind |-> "array", returncode |-> 0, entries |-> es] : es \in EntryLists}

\* Wayback CDX: no answer, or lines of text
WaybackResponses == {[kind |-> "error", returncode |-> 0, entries |-> <<>>]} \cup
                    {[kind |-> "text", returncode |-> 0, entries |-> es] : es \in EntryLists}

\* subfinder: not installed, timed out, not startable, or run to an exit code
SubfinderRuns == {[kind |-> k, returncode |-> 0, entries |-> <<>>] :
                     k \in {"missing", "timeout", "error"}} \cup
                 {[kind |-> "ran", returncode |-> rc, entries |-> es] :
                     rc \in {0, 1}, es \in EntryLists}

\* str.lower()
lower(n) == [n EXCEPT !.upper = FALSE]

\* n == domain or n.endswith("." + domain), domain being lower-case
in_scope(n, domain) == ~n.upper /\ n.zone = domain

\* sorted() of hostnames of one zone
RECURSIVE sorted_names(_)
sorted_names(S) ==
    IF S = {} THEN <<>>
    ELSE LET n == CHOOSE x \in S : \A y \in S : x.label <= y.label
         IN <<n>> \o sorted_names(S \ {n})

\* the names of the entries that have the promised form, lower-cased and filtered
filtered(domain, es) ==
    {lower(es[i].name) : i \in {j \in 1..Len(es) : es[j].ok /\ in_scope(lower(es[j].name), domain)}}

\* fetch_crt_raw and fetch_crt_subdomains: an error and a page that is not
\* JSON give an empty data; the loop over data raises TypeError for null;
\* the keys of an object are strings, which have no get()
fetch_crt_subdomains(domain, resp) ==
    IF resp.kind = "null" THEN [raised |-> TRUE, hosts |-> <<>>]
    ELSE IF resp.kind = "array"
         THEN [raised |-> FALSE, hosts |-> sorted_names(filtered(domain, resp.entries))]
         ELSE [raised |-> FALSE, hosts |-> <<>>]

fetch_wayback_subdomains(domain, resp) ==
    IF resp.kind = "text"
    THEN [raised |-> FALSE, hosts |-> sorted_names(filtered(domain, resp.entries))]
    ELSE [raised |-> FALSE, hosts |-> <<>>]

\* the output of a run is used whatever its exit code
run_subfinder(domain, run) ==
    IF run.kind = "ran"
    THEN [raised |-> FALSE, hosts |-> sorted_names(filtered(domain, run.entries))]
    ELSE [raised |-> FALSE, hosts |-> <<>>]

\* _scan_domain(domain) with what the three sources came to
scan_domain(domain, crt_resp, wb_resp, sf_run) ==
    LET crt == fetch_crt_subdomains(domain, crt_resp)
        wb == fetch_wayback_subdomains(domain, wb_resp)
        sf == run_subfinder(domain, sf_run)
    IN /\ crt_raw' = crt_resp
       /\ wb_raw' = IF crt.raised THEN NoResponse ELSE wb_resp
       /\ sf_raw' = IF crt.raised THEN NoResponse ELSE sf_run
       /\ discovered' =
             IF crt.raised THEN [status |-> "raised", hosts |-> <<>>]
             ELSE [status |-> "returned",
                   hosts |-> sorted_names(Range(crt.hosts) \cup Range(wb.hosts)
                                          \cup Range(sf.hosts))]
       /\ UNCHANGED <<clock, monitors, file, tmp, fh, pc, sched_locals, recent_events,
                      next_id, ghosts, fails, feed_vars, meta_vars, fp_vars,
                      payload, at_wake>>

----------------------------------------------------------------------------
(* fingerprint_from(headers, text).  The input is what the matchers look     *)
(* at: the product names in the Server and X-Powered-By headers and the      *)
(* version _parse_version finds in each ("" for none), whether the cf-ray    *)
(* header, a PHPSESSID cookie and the x-aspnet-version header are there,     *)
(* the content of the generator meta tag, and the markers in the text.       *)

ServerHeaders == {[has |-> {}, version |-> ""]} \cup
                 {[has |-> h, version |-> v] :
                     h \in {{"nginx"}, {"apache", "iis"}, {"cloudflare"}}, v \in {"", "1.2"}}

PoweredByHeaders == {[has |-> {}, version |-> ""]} \cup
                    {[has |-> h, version |-> v] :
                        h \in {{"php"}, {"express", "asp.net"}}, v \in {"", "1.2"}}

\* the generator: none, one of the three known products, another product
\* ("React"), or blank content
Generators == {[kind |-> "none", version |-> ""], [kind |-> "blank", version |-> ""]} \cup
              {[kind |-> k, version |-> v] :
                  k \in {"wordpress", "drupal", "joomla", "other"}, v \in {"", "1.2"}}

BodyMarkers == {"jquery", "bootstrap", "font-awesome", "react", "angular", "vue",
                "wordpress", "drupal", "joomla"}

Pages == [server : ServerHeaders, cf_ray : BOOLEAN, x_powered_by : PoweredByHeaders,
          phpsessid : BOOLEAN, x_aspnet_version : {"none", "4.0"}, generator : Generators,
          body : {b \in SUBSET BodyMarkers : Cardinality(b) <= MaxMarkers}]

\* add(vendor, product, evidence, version) when the matcher's condition holds
add(cond, vendor, product, evidence, version) ==
    IF cond THEN <<[vendor |-> vendor, product |-> product, version |-> version,
                    evidence |-> evidence]>>
    ELSE <<>>

\* lines 695-749: the matches, in the order of the matchers
matches(page) ==
    LET server == page.server
        xpb == page.x_powered_by
        gen == page.generator
        aspnet == IF xpb.has # {} THEN xpb.version
                  ELSE IF page.x_aspnet_version = "none" THEN "" ELSE page.x_aspnet_version
    IN add("nginx" \in server.has, "nginx", "nginx", "server", server.version)
       \o add("apache" \in server.has, "Apache", "httpd", "server", server.version)
       \o add("iis" \in server.has, "Microsoft", "IIS", "server", server.version)
       \o add("cloudflare" \in server.has \/ page.cf_ray, "Cloudflare", "Cloudflare",
              "headers: cloudflare", "")
       \o add("php" \in xpb.has \/ page.phpsessid, "PHP", "PHP", "x-powered-by", xpb.version)
       \o add("express" \in xpb.has, "Express", "Express", "x-powered-by", xpb.version)
       \o add("asp.net" \in xpb.has \/ page.x_aspnet_version # "none", "Microsoft", "ASP.NET",
              "headers", aspnet)
       \o add(gen.kind = "wordpress", "WordPress", "WordPress", "meta generator", gen.version)
       \o add(gen.kind = "drupal", "Drupal", "Drupal", "meta generator", gen.version)
       \o add(gen.kind = "joomla", "Joomla", "Joomla!", "meta generator", gen.version)
       \o add(gen.kind = "other", "React", "React", "meta generator", gen.version)
       \o add("jquery" \in page.body, "jQuery", "jQuery", "script: jquery*.js", "")
       \o add("bootstrap" \in page.body, "Bootstrap", "Bootstrap", "bootstrap .css/.js", "")
       \o add("font-awesome" \in page.body, "Font Awesome", "Font Awesome",
              "font-awesome .css/.js", "")
       \o add("react" \in page.body, "React", "React", "react markers", "")
       \o add("angular" \in page.body, "Angular", "Angular", "angular markers", "")
       \o add("vue" \in page.body, "Vue", "Vue", "vue markers", "")
       \o add("wordpress" \in page.body, "WordPress", "WordPress", "wp-content/html markers", "")
       \o add("drupal" \in page.body, "Drupal", "Drupal", "html markers", "")
       \o add("joomla" \in page.body, "Joomla", "Joomla!", "html markers", "")

tech_key(t) == <<t.vendor, t.product, t.version>>

\* a deduplication that keeps the last match of a key
RECURSIVE deduplicate_keep_last(_)
deduplicate_keep_last(ts) ==
    IF ts = <<>> THEN <<>>
    ELSE LET rest == deduplicate_keep_last(Tail(ts))
         IN IF \E i \in 1..Len(rest) : tech_key(rest[i]) = tech_key(Head(ts))
            THEN rest ELSE <<Head(ts)>> \o rest

\* lines 751-759: the loop over techs with the seen set
RECURSIVE deduplicate(_)
deduplicate(ts) ==
    IF ts = <<>> THEN <<>>
    ELSE LET front == deduplicate(SubSeq(ts, 1, Len(ts) - 1))
             t == ts[Len(ts)]
         IN IF \E i \in 1..Len(front) : tech_key(front[i]) = tech_key(t)
            THEN front ELSE Append(front, t)

\* gen.split()[0] of line 730 raises IndexError for a blank generator content
fingerprint_from(page) ==
    /\ fp_input' = page
    /\ IF page.generator.kind = "blank"
       THEN /\ techs' = <<>>
            /\ unique' = [status |-> "raised", technologies |-> <<>>]
       ELSE /\ techs' = matches(page)
            /\ unique' = [status |-> "returned", technologies |-> deduplicate(matches(page))]
    /\ UNCHANGED <<clock, monitors, file, tmp, fh, pc, sched_locals, recent_events,
                   next_id, ghosts, fails, feed_vars, meta_vars, disc_vars, payload, at_wake>>

----------------------------------------------------------------------------
(* Next-state relations.  The counters reqs, scans and fails bound the      *)
(* number of requests, scans and failed writes of a behaviour.               *)
(* Spec: the monitoring engine on one domain, with save_json run as a        *)
(* critical section (while a thread is inside save_json the other does not   *)
(* move), time passing and writes failing.                                   *)
(* SpecRace: every interleaving of the two threads' steps, save_json's       *)
(* included, at one instant.                                                 *)

InSave(t) == pc[t] \in {"open", "write", "replace"}

FoundSets == {S \in SUBSET Hosts : S = {} \/ 1 \in S}

Turn(t) == \A u \in Threads \ {t} : ~InSave(u)

Next ==
    \/ /\ Turn("http") /\ reqs < MaxReqs
       /\ \E en \in BOOLEAN, ih \in IntervalInputs : set_monitor("d1.com", en, ih)
       /\ UNCHANGED payload
    \/ Turn("http") /\ reqs < MaxReqs /\ delete_monitor("d1.com")
    \/ \E t \in Threads : Turn(t) /\ save_open(t)
    \/ \E t \in Threads : Turn(t) /\ save_write(t)
    \/ \E t \in Threads : Turn(t) /\ fails < MaxFails /\ save_write_fails(t)
    \/ \E t \in Threads : Turn(t) /\ save_replace(t)
    \/ Turn("sched") /\ runner_wake
    \/ Turn("sched") /\ tick_return
    \/ Turn("sched") /\ tick_skip
    \/ Turn("sched") /\ scans < MaxScans /\ tick_scan /\ scans' = scans + 1
    \/ Turn("sched") /\ \E found \in FoundSets : tick_update(found)
    \/ Turn("sched") /\ tick_event
    \/ clock_tick

Spec == Init /\ [][Next]_vars

NextRace ==
    \/ /\ reqs < MaxRaceReqs
       /\ \E en \in BOOLEAN : set_monitor("d1.com", en, NoInterval)
       /\ UNCHANGED payload
    \/ reqs < MaxRaceReqs /\ delete_monitor("d1.com")
    \/ \E t \in Threads : save_open(t)
    \/ \E t \in Threads : save_write(t)
    \/ \E t \in Threads : save_replace(t)
    \/ \E t \in Threads : save_replace_fails(t)
    \/ runner_wake
    \/ tick_return
    \/ tick_skip
    \/ scans < MaxRaceScans /\ tick_scan /\ scans' = scans + 1
    \/ \E found \in SUBSET {1} : tick_update(found)
    \/ tick_event

SpecRace == Init /\ [][NextRace]_vars

\* SpecCap: the event log filling up past its cap
NextCap ==
    next_id <= MaxAppends /\ emit_event("d1.com", <<1>>)

SpecCap == Init /\ [][NextCap]_vars

\* SpecFeed: events appended as time passes, and a client polling
SinceInputs == {NoSince, BadSince} \cup {Since(t) : t \in 0..MaxTime}

NextFeed ==
    \/ next_id <= MaxFeedEvents /\ emit_event("d1.com", <<1>>)
    \/ polls < MaxPolls /\ \E s \in SinceInputs : handle_monitor_updates_get(s)
    \/ clock_tick

SpecFeed == Init /\ [][NextFeed]_vars

\* SpecSince: one read of the log, for every log of up to MaxLogLen entries
\* with timestamps that parse or do not, and every since
StampLists == UNION {[1..n -> (0..MaxTime) \cup {Unparseable}] : n \in 0..MaxLogLen}

NextSince ==
    /\ polls = 0
    /\ \E stamps \in StampLists, s \in SinceInputs : get_events_since_of(stamps, s)

SpecSince == Init /\ [][NextSince]_vars

\* SpecLock: appends to the log step by step up to and past its cap, and a
\* client that polls while the log is at its cap
NextLock ==
    \/ next_id <= MaxAppends /\ add_event_acquire
    \/ add_event_append("d1.com", <<1>>)
    \/ add_event_trim
    \/ /\ polls < MaxLockPolls
       /\ Len(recent_events) >= RecentEventsCap
       /\ \E s \in {NoSince, BadSince} : get_events_since_locked(s)

SpecLock == Init /\ [][NextLock]_vars

\* SpecMeta: one enrichment request, its probes completing in any order
HostLists == UNION {[1..n -> RawHosts] : n \in 0..MaxHosts}

\* n distinct hosts
DistinctHosts(n) == [i \in 1..n |-> [name |-> i, raw |-> FALSE]]

\* lists at the cap: 200 and 201 distinct hosts, and 201 entries that name 200 hosts
LongLists == {DistinctHosts(MaxHostsPerRequest), DistinctHosts(MaxHostsPerRequest + 1),
              Append(DistinctHosts(MaxHostsPerRequest), [name |-> 1, raw |-> TRUE])}

NextMeta ==
    \/ \E hs \in HostLists : handle_meta_api(TRUE, hs)
    \/ \E hs \in LongLists : handle_meta_api(TRUE, hs)
    \/ handle_meta_api(FALSE, <<>>)
    \/ \E i \in 1..MaxHosts, out \in AttemptOutcomes : fetch_one_host(i, out)
    \/ fetch_metadata_for_hosts

SpecMeta == Init /\ [][NextMeta]_vars

\* SpecSeq: two monitors that are due in the same wake, with requests, a poll
\* and an enrichment request in between the scheduler's steps
NextSeq ==
    \/ /\ Turn("http") /\ reqs < MaxSeqReqs
       /\ \E d \in {"d1.com", "d2.com"} : set_monitor(d, TRUE, NoInterval)
       /\ UNCHANGED payload
    \/ Turn("http") /\ reqs < MaxSeqReqs /\ delete_monitor("d1.com")
    \/ \E t \in Threads : Turn(t) /\ save_open(t)
    \/ \E t \in Threads : Turn(t) /\ save_write(t)
    \/ \E t \in Threads : Turn(t) /\ save_replace(t)
    \/ Turn("sched") /\ runner_wake
    \/ Turn("sched") /\ tick_return
    \/ Turn("sched") /\ tick_skip
    \/ Turn("sched") /\ scans < MaxSeqScans /\ tick_scan /\ scans' = scans + 1
    \/ Turn("sched") /\ tick_scan_raises
    \/ Turn("sched") /\ \E found \in SUBSET {1} : tick_update(found)
    \/ Turn("sched") /\ tick_event
    \/ polls < MaxSeqPolls /\ handle_monitor_updates_get(NoSince)
    \/ handle_meta_api(TRUE, DistinctHosts(1))
    \/ \E out \in AttemptOutcomes : out.kind = "response" /\ fetch_one_host(1, out)
    \/ fetch_metadata_for_hosts

SpecSeq == Init /\ [][NextSeq]_vars

\* SpecLive: the scheduler loop running forever over two monitors.  The
\* scheduler thread keeps taking steps (stop_event.wait returns, a scan
\* returns or raises, save_json returns or raises), and a request handler
\* that is inside save_json finishes; nothing forces a request to come, the
\* time to pass or a scan to return rather than raise.  Scans are not
\* counted here: a behaviour may scan without end.
LiveIntervals == {NoInterval, [kind |-> "int", val |-> 1]}

NextLive ==
    \/ /\ Turn("http") /\ reqs < MaxLiveReqs
       /\ \E d \in {"d1.com", "d2.com"}, en \in BOOLEAN, ih \in LiveIntervals :
             set_monitor(d, en, ih)
       /\ UNCHANGED payload
    \/ \E t \in Threads : Turn(t) /\ save_open(t)
    \/ \E t \in Threads : Turn(t) /\ save_write(t)
    \/ Turn("sched") /\ fails < MaxLiveFails /\ save_write_fails("sched")
    \/ \E t \in Threads : Turn(t) /\ save_replace(t)
    \/ Turn("sched") /\ runner_wake
    \/ Turn("sched") /\ tick_return
    \/ Turn("sched") /\ tick_skip
    \/ Turn("sched") /\ tick_scan /\ UNCHANGED scans
    \/ Turn("sched") /\ tick_scan_raises
    \/ Turn("sched") /\ tick_update({1})
    \/ Turn("sched") /\ tick_event
    \/ clock_tick

\* a step of the scheduler thread, and a step of a request handler inside save_json
SchedStep == NextLive /\ (pc'["sched"] # pc["sched"] \/ items' # items)
HttpStep == NextLive /\ pc["http"] # "idle" /\ pc'["http"] # pc["http"]

SpecLive == Init /\ [][NextLive]_vars /\ WF_vars(SchedStep) /\ WF_vars(HttpStep)

\* SpecPost: the monitoring engine behind the POST handler, for well-formed
\* and malformed domains
PostIntervals == {NoInterval, [kind |-> "int", val |-> 1], [kind |-> "int", val |-> -1]}

NextPost ==
    \/ /\ Turn("http") /\ reqs < MaxPostReqs
       /\ \E d \in PostDomains, en \in BOOLEAN, ih \in PostIntervals :
             handle_monitor_post(d, en, ih)
    \/ \E t \in Threads : Turn(t) /\ save_open(t)
    \/ \E t \in Threads : Turn(t) /\ save_write(t)
    \/ \E t \in Threads : Turn(t) /\ save_replace(t)
    \/ Turn("sched") /\ runner_wake
    \/ Turn("sched") /\ tick_return
    \/ Turn("sched") /\ tick_skip
    \/ Turn("sched") /\ scans < MaxPostScans /\ tick_scan /\ scans' = scans + 1
    \/ Turn("sched") /\ tick_update({1})
    \/ Turn("sched") /\ tick_event
    \/ clock_tick

SpecPost == Init /\ [][NextPost]_vars

\* SpecFingerprint: fingerprint_from on one page
NextFingerprint ==
    /\ unique.status = "none"
    /\ \E page \in Pages : fingerprint_from(page)

SpecFingerprint == Init /\ [][NextFingerprint]_vars

\* SpecDiscover: one scan of a domain, for every answer of the three sources
NextDiscover ==
    /\ discovered.status = "none"
    /\ \E crt_resp \in CrtResponses, wb_resp \in WaybackResponses, sf_run \in SubfinderRuns :
           scan_domain("d1.com", crt_resp, wb_resp, sf_run)

SpecDiscover == Init /\ [][NextDiscover]_vars

----------------------------------------------------------------------------
(* Steps of the scheduler that the properties below speak about *)

IsSorted(s) == \A i, j \in 1..Len(s) : i < j => s[i] < s[j]

\* _scan_domain has returned and the scanned record is stored under its key
ScanStored == pc["sched"] = "scan" /\ pc'["sched"] = "open"

\* an iteration of the loop ends: after add_event's turn, or by an exception
IterationEnds ==
    /\ pc["sched"] \in {"open", "write", "replace", "event"}
    /\ pc'["sched"] \in {"loop", "sleep"}

\* the step appends one event, for the current domain, with these hosts
EventAppended(found) ==
    /\ next_id' = next_id + 1
    /\ recent_events' = Append(recent_events, recent_events'[Len(recent_events')])
    /\ LET e == recent_events'[Len(recent_events')]
       IN /\ e.domain = cur.domain
          /\ Range(e.new_subdomains) = found
          /\ IsSorted(e.new_subdomains)

NoEventAppended == recent_events' = recent_events /\ next_id' = next_id

\* the scheduler evaluates the next item of its snapshot
ItemEvaluated == pc["sched"] = "loop" /\ items # <<>> /\ items' = Tail(items)

----------------------------------------------------------------------------
(* C1, as stated: for every scan, with A the set found and B the record's    *)
(* last_results before the scan, last_new after the scan is A - B (sorted),  *)
(* and an event is appended for the scan if and only if A - B is non-empty.  *)
C1_Original ==
    [][ /\ ScanStored =>
            LET m == Get(monitors', cur.domain)
            IN /\ Range(m.last_new) = all_subs' \ Range(Resolve(cur).last_results)
               /\ IsSorted(m.last_new)
        /\ IterationEnds =>
            LET diff == all_subs \ Range(pre.last_results)
            IN IF diff # {} THEN EventAppended(diff) ELSE NoEventAppended
      ]_vars

(* C1, amended: last_new after the scan is A - B (sorted); an event is       *)
(* appended for the scan if and only if A - B is non-empty and save_json     *)
(* returned; when save_json raises, the iteration ends without an event.     *)
C1_DiffAndEvent ==
    [][ /\ ScanStored =>
            LET m == Get(monitors', cur.domain)
            IN /\ Range(m.last_new) = all_subs' \ Range(Resolve(cur).last_results)
               /\ IsSorted(m.last_new)
        /\ IterationEnds =>
            LET diff == all_subs \ Range(pre.last_results)
            IN IF diff # {} /\ pc["sched"] = "event"
               THEN EventAppended(diff) ELSE NoEventAppended
      ]_vars

\* a second scan found {1, 3} where {1} or {1, 2} was known: the event reports host 3
C1_Witness ==
    /\ recent_events # <<>>
    /\ "d1.com" \in Keys(monitors)
    /\ Get(monitors, "d1.com").last_results = <<1, 3>>
    /\ Get(monitors, "d1.com").last_new = <<3>>
    /\ recent_events[Len(recent_events)].new_subdomains = <<3>>
    /\ pc["sched"] = "loop"

(* C2: when the scheduler evaluates a monitor in a wake, it scans it if and  *)
(* only if it is enabled and either was never scanned or now - last_run is   *)
(* at least interval_hours hours (with interval_hours = 1: not at 30         *)
(* minutes, again at 60 minutes or later).                                   *)
C2_DueIff ==
    [][ ItemEvaluated =>
            LET m == Resolve(Head(items))
            IN (pc'["sched"] = "scan") <=>
                   /\ m.enabled
                   /\ \/ m.last_run = None
                      \/ clock - m.last_run >= m.interval_hours * TicksPerHour
      ]_vars

\* a monitor with interval_hours = 1 scanned at 0:00 is scanned again at the wake of 1:00
C2_Witness ==
    /\ pc["sched"] = "scan"
    /\ cur.alias
    /\ Get(monitors, cur.domain).interval_hours = 1
    /\ Get(monitors, cur.domain).last_run = 0
    /\ clock = 2

(* C3: when save_json fails in a tick, the scan's update is not committed:   *)
(* the record then has the last_run, last_results and last_new it had        *)
(* before the scan, and is due again at the next wake.                       *)
C3_NotCommitted ==
    [][ (InSave("sched") /\ pc'["sched"] = "sleep" /\ cur.domain \in Keys(monitors')) =>
            LET m == Get(monitors', cur.domain)
            IN /\ m.last_run = pre.last_run
               /\ m.last_results = pre.last_results
               /\ m.last_new = pre.last_new
               /\ (m.enabled => Due(m, clock'))
      ]_vars

(* C4: ticks, upserts and deletes are mutually exclusive on the store, so    *)
(* that the outcome is that of a serial order.  The requests come one after  *)
(* another and a tick changes neither the keys nor enabled nor               *)
(* interval_hours, so in every serial order, once both threads are at rest,  *)
(* the store holds the keys, enabled and interval_hours that the requests    *)
(* alone make (expect), and the file holds the store.                        *)
C4_Serializable ==
    (pc["sched"] = "sleep" /\ pc["http"] = "idle") =>
        /\ \A d \in Domains :
              /\ (d \in Keys(monitors)) = expect[d].present
              /\ d \in Keys(monitors) =>
                    /\ Get(monitors, d).enabled = expect[d].enabled
                    /\ Get(monitors, d).interval_hours = expect[d].interval_hours
        /\ IF file.exists THEN file = Dump(monitors) ELSE monitors = <<>>

(* C5: only an upsert adds a key to the store and only a delete removes      *)
(* one: the set of keys changes in no step but the one in which a request    *)
(* begins, so a deleted domain stays absent until the next upsert.           *)
C5_KeysByRequestsOnly ==
    [][ Keys(monitors') # Keys(monitors) => (pc["http"] = "idle" /\ pc'["http"] = "open")
      ]_vars

(* C8: monitors.json is never seen partially written: whenever the file      *)
(* exists it holds one complete dump.                                        *)
C8_FileComplete == file.exists => file.content = "complete"

(* C9: after every scan last_results is exactly the set found (sorted), not  *)
(* the union with the earlier results; an event holds found hosts only, and  *)
(* a scan that finds nothing new appends no event, whatever disappeared.     *)
C9_ResultsReplaced ==
    [][ /\ ScanStored =>
            LET m == Get(monitors', cur.domain)
            IN Range(m.last_results) = all_subs' /\ IsSorted(m.last_results)
        /\ (pc["sched"] = "event" /\ pc'["sched"] = "loop") =>
            \/ NoEventAppended
            \/ /\ Len(recent_events') = Len(recent_events) + 1
               /\ Range(recent_events'[Len(recent_events')].new_subdomains) \subseteq all_subs
               /\ ~(all_subs \subseteq Range(pre.last_results))
      ]_vars

\* {1, 2} was known and the scan found {1, 3}: host 2 is dropped, host 3 is new
C9_Witness ==
    /\ pc["sched"] = "event"
    /\ pre.last_results = <<1, 2>>
    /\ all_subs = {1, 3}
    /\ new_assets = <<3>>
    /\ cur.domain \in Keys(monitors)
    /\ Get(monitors, cur.domain).last_results = <<1, 3>>
    /\ Get(monitors, cur.domain).last_new = <<3>>

(* C6: the event log never holds more than 200 events; an append to a log    *)
(* of 200 evicts exactly the oldest event, and the 199 others stay in order  *)
(* in front of the new event; an append to a shorter log evicts nothing.     *)
C6_CapFifo ==
    [][ /\ Len(recent_events') <= 200
        /\ next_id' = next_id + 1 =>
              /\ Len(recent_events') >= 1
              /\ recent_events'[Len(recent_events')].id = next_id
              /\ SubSeq(recent_events', 1, Len(recent_events') - 1) =
                    IF Len(recent_events) = 200 THEN Tail(recent_events)
                    ELSE recent_events ]_vars

C6_Witness ==
    /\ Len(recent_events) = 200
    /\ recent_events[1].id = 3
    /\ recent_events[200].id = 202

(* C7: a poll with a parseable since T returns exactly the events of the     *)
(* log whose timestamp is strictly greater than T, in log order; so a poll   *)
(* whose since is the timestamp of the last event the client received        *)
(* returns no event the client has already received.                         *)
C7_StrictlyAfter ==
    [][ (polls' = polls + 1 /\ since'.kind = "ts") =>
          /\ \E keep \in SUBSET (1..Len(recent_events)) :
                /\ \A i \in 1..Len(recent_events) :
                      i \in keep <=> recent_events[i].timestamp > since'.val
                /\ Len(events') = Cardinality(keep)
                /\ \A k \in 1..Len(events') :
                      \E i \in keep : /\ events'[k] = recent_events[i]
                                      /\ Cardinality({j \in keep : j < i}) = k - 1
          /\ (cursor # None /\ since'.val = cursor) =>
                \A k \in 1..Len(events') : events'[k].id \notin received ]_vars

C7_Witness ==
    /\ polls >= 2
    /\ since.kind = "ts"
    /\ since.val = 0
    /\ Len(events) = 1
    /\ Len(recent_events) = 3
    /\ recent_events[2].timestamp = 0
    /\ Cardinality(received) = 3

(* C10: the response of an enrichment request holds one result per           *)
(* deduplicated host, in the order in which the normalised hosts first       *)
(* appear in the request, in whatever order the probes completed.            *)
C10_FirstSeenOrder ==
    meta_pc = "responded" =>
        LET norm == [i \in 1..Len(hosts) |-> normalise(hosts[i])]
            wanted == {norm[i] : i \in {j \in 1..Len(hosts) : norm[j].name # 0}}
            first(h) == CHOOSE i \in 1..Len(hosts) :
                            norm[i] = h /\ \A j \in 1..(i-1) : norm[j] # h
        IN /\ {results[k].host : k \in 1..Len(results)} = wanted
           /\ Len(results) = Cardinality(wanted)
           /\ \A k, l \in 1..Len(results) :
                 k < l => first(results[k].host) < first(results[l].host)

C10_Witness ==
    /\ meta_pc = "responded"
    /\ Len(hosts) = 3
    /\ Len(results) = 2
    /\ results[1].host.name = 2
    /\ completed = <<2, 1>>

(* C11: an enrichment request whose hosts value is not a list, is empty or   *)
(* has more than 200 entries (201 distinct hosts) is rejected, and no probe  *)
(* is started for it: no task exists, no attempt is made, nothing is         *)
(* returned.                                                                 *)
C11_OversizeRejected ==
    (meta_pc # "idle" /\ (~hosts_is_list \/ hosts = <<>> \/ Len(hosts) > 200)) =>
        /\ meta_pc = "rejected"
        /\ slots = <<>>
        /\ attempts = <<>>
        /\ completed = <<>>
        /\ results = <<>>

C11_Witness ==
    /\ meta_pc = "rejected"
    /\ hosts_is_list
    /\ Len(hosts) = 201
    /\ Cardinality({hosts[i] : i \in 1..Len(hosts)}) = 201

(* C12: whichever hosts fail on both schemes, the response holds one result  *)
(* per host, the result of a host that failed on both schemes has a          *)
(* non-empty error, and the result of every other host is the one its own    *)
(* attempts give.                                                            *)
C12_FailureIsolated ==
    meta_pc = "responded" =>
        /\ Len(results) = Len(ordered_hosts)
        /\ \A k \in 1..Len(results) :
              LET last == attempts[k][Len(attempts[k])]
              IN IF last.kind = "response"
                 THEN results[k] = success_result(ordered_hosts[k], last.scheme, 200)
                 ELSE /\ results[k].host = ordered_hosts[k]
                      /\ results[k].error # ""

(* C19: a probe tries https first and http second and stops at the first     *)
(* response: scheme is https whenever https got a response (http is then     *)
(* not tried); scheme is http only when https failed and http got a          *)
(* response; scheme and url are empty, status_code absent and error the      *)
(* last attempt's message exactly when both failed; error is empty exactly   *)
(* when a scheme succeeded.                                                  *)
C19_HttpsThenHttp ==
    \A i \in 1..Len(slots) :
        slots[i] # NoResult =>
            LET tried == attempts[i]
                r == slots[i]
                responded(a) == a.kind \in {"response", "unprocessable"}
            IN /\ tried[1].scheme = "https"
               /\ Len(tried) = 2 => tried[2].scheme = "http"
               /\ responded(tried[1]) => (r.scheme = "https" /\ Len(tried) = 1)
               /\ r.scheme = "http" <=>
                     (Len(tried) = 2 /\ ~responded(tried[1]) /\ responded(tried[2]))
               /\ (Len(tried) = 2 /\ ~responded(tried[1]) /\ ~responded(tried[2])) <=>
                     (r.scheme = "" /\ r.url = <<>> /\ r.status_code = None)
               /\ r.scheme = "" => r.error = tried[Len(tried)].msg
               /\ r.error = "" <=> r.scheme # ""

(* C13: for every combination of answers of the three sources, discover(D)   *)
(* returns a sorted sequence without duplicates of lower-case hostnames      *)
(* that are D or end in "." + D, and its hostnames are exactly the union of  *)
(* the per-source filtered sets.                                             *)
C13_DiscoverResult ==
    discovered.status # "none" =>
        /\ discovered.status = "returned"
        /\ \A i, j \in 1..Len(discovered.hosts) :
              i < j => discovered.hosts[i].label < discovered.hosts[j].label
        /\ \A i \in 1..Len(discovered.hosts) :
              /\ ~discovered.hosts[i].upper
              /\ discovered.hosts[i].zone = "d1.com"
        /\ Range(discovered.hosts) =
              UNION {{[zone |-> "d1.com", label |-> r.entries[i].name.label, upper |-> FALSE] :
                        i \in {j \in 1..Len(r.entries) :
                                  r.entries[j].ok /\ r.entries[j].name.zone = "d1.com"}} :
                     r \in {crt_raw, wb_raw, sf_raw}}

(* C14: a source that fails, errors, times out or answers something          *)
(* malformed contributes nothing and never makes discover(D) fail: discover  *)
(* returns, with the hostnames of the sources that succeeded (crt.sh         *)
(* answering a JSON array, Wayback answering text, subfinder exiting 0).     *)
C14_SourceIsolation ==
    discovered.status # "none" =>
        /\ discovered.status = "returned"
        /\ Range(discovered.hosts) =
              UNION {{[zone |-> "d1.com", label |-> r.entries[i].name.label, upper |-> FALSE] :
                        i \in {j \in 1..Len(r.entries) :
                                  r.entries[j].ok /\ r.entries[j].name.zone = "d1.com"}} :
                     r \in {x \in {crt_raw, wb_raw, sf_raw} :
                               x.kind \in {"array", "text", "ran"} /\ x.returncode = 0}}

(* C15: a monitor-enable request whose domain is missing or is not a         *)
(* hostname (labels of letters, digits and hyphens, no label starting or     *)
(* ending with a hyphen, the last label of two or more letters) is rejected  *)
(* and changes neither the store nor the file; so every key of the store is  *)
(* a hostname.                                                               *)
C15_KeysAreHostnames ==
    LET hostname(d) ==
            LET ls == labels_of(d)
            IN /\ Len(ls) >= 1
               /\ \A i \in 1..Len(ls) :
                     /\ Len(ls[i]) >= 1
                     /\ ls[i][1] # "-"
                     /\ ls[i][Len(ls[i])] # "-"
               /\ Len(ls[Len(ls)]) >= 2
               /\ \A k \in 1..Len(ls[Len(ls)]) : ls[Len(ls)][k] = "a"
    IN /\ \A d \in Keys(monitors) : hostname(d)
       /\ (pc["http"] = "open" /\ payload # NoPayload) => hostname(payload.domain)

\* the step is an accepted POST /api/monitor
Upsert ==
    /\ reqs' = reqs + 1
    /\ payload'.domain \in Keys(monitors')
    /\ pc["http"] = "idle"
    /\ pc'["http"] = "open"

C17_DisabledNotScanned ==
    [][ \A i \in 1..Len(at_wake) :
          LET d == at_wake[i].domain
          IN (/\ ~at_wake[i].enabled
              /\ reqs' = reqs
              /\ d \in Keys(monitors)
              /\ d \in Keys(monitors')) =>
                 /\ Get(monitors', d).last_run = Get(monitors, d).last_run
                 /\ Get(monitors', d).last_results = Get(monitors, d).last_results
                 /\ Get(monitors', d).last_new = Get(monitors, d).last_new
                 /\ Get(monitors', d).updated_at = Get(monitors, d).updated_at
                 /\ next_id' # next_id =>
                       recent_events'[Len(recent_events')].domain # d ]_vars

C18_FirstMatchKept ==
    unique.status = "returned" =>
        LET u == unique.technologies
            key(t) == <<t.vendor, t.product, t.version>>
            firsts == {i \in 1..Len(techs) : \A j \in 1..(i-1) : key(techs[j]) # key(techs[i])}
        IN /\ unique.technologies = deduplicate(matches(fp_input))
           /\ \A a, b \in 1..Len(u) : a < b => key(u[a]) # key(u[b])
           /\ Len(u) = Cardinality(firsts)
           /\ \A k \in 1..Len(u) :
                 \E i \in firsts : /\ u[k] = techs[i]
                                   /\ Cardinality({j \in firsts : j < i}) = k - 1

C18_Witness ==
    /\ unique.status = "returned"
    /\ Len(techs) = 4
    /\ Len(unique.technologies) = 3
    /\ techs[2].product = "WordPress"
    /\ techs[4].product = "WordPress"
    /\ unique.technologies[2].evidence = "meta generator"
    /\ unique.technologies[3].product = "jQuery"

(* C27: the 200 cap is applied to the deduplicated host list: a request     *)
(* with a non-empty hosts list is rejected if and only if the number of its  *)
(* hosts after case-insensitive deduplication exceeds 200; 201 entries that  *)
(* name 200 hosts are accepted and probed.                                   *)
C27_CapAfterDedup ==
    (meta_pc # "idle" /\ hosts_is_list /\ hosts # <<>>) =>
        (meta_pc = "rejected" <=> Len(dedup(hosts)) > 200)

(* C28: when subfinder times out or exits with a non-zero status, it         *)
(* contributes nothing: discover(D) returns, and its hostnames are those of  *)
(* crt.sh and Wayback alone, whatever subfinder printed before it failed.    *)
C28_FailedToolContributesNothing ==
    (sf_raw.kind = "timeout" \/ (sf_raw.kind = "ran" /\ sf_raw.returncode # 0)) =>
        /\ discovered.status = "returned"
        /\ Range(discovered.hosts) =
              UNION {{[zone |-> "d1.com", label |-> r.entries[i].name.label, upper |-> FALSE] :
                        i \in {j \in 1..Len(r.entries) :
                                  r.entries[j].ok /\ r.entries[j].name.zone = "d1.com"}} :
                     r \in {crt_raw, wb_raw}}

(* C24: the event log is ordered by non-decreasing timestamp from oldest to  *)
(* newest, and it changes only in the scheduler thread's add_event step: no  *)
(* step of a request handler appends to it.                                  *)
C24_OrderedSingleWriter ==
    [][ /\ \A i, j \in 1..Len(recent_events') :
              i < j => recent_events'[i].timestamp <= recent_events'[j].timestamp
        /\ recent_events' # recent_events =>
              /\ pc["sched"] = "event"
              /\ pc'["sched"] = "loop"
              /\ pc'["http"] = pc["http"]
              /\ reqs' = reqs ]_vars

\* two events, the second appended an hour after the first
C24_Witness ==
    /\ Len(recent_events) = 2
    /\ recent_events[1].timestamp = 0
    /\ recent_events[2].timestamp = 2
    /\ recent_events[1].id < recent_events[2].id

(* C30: every event of the log has a non-empty new_subdomains without        *)
(* duplicates and a count equal to its length, and none of the hostnames of  *)
(* an event was in the record's last_results before the scan that produced   *)
(* it (last_results does not change while the scan runs).                    *)
C30_EventWellFormed ==
    [][ /\ \A k \in 1..Len(recent_events') :
              LET e == recent_events'[k]
              IN /\ e.new_subdomains # <<>>
                 /\ \A a, b \in 1..Len(e.new_subdomains) :
                       a # b => e.new_subdomains[a] # e.new_subdomains[b]
                 /\ e.count = Len(e.new_subdomains)
        /\ (pc["sched"] = "scan" /\ pc'["sched"] = "scan") =>
              (IF cur'.alias THEN Get(monitors', cur'.domain) ELSE cur'.m).last_results
                 = Resolve(cur).last_results
        /\ ScanStored => pre'.last_results = Resolve(cur).last_results
        /\ next_id' = next_id + 1 =>
              Range(recent_events'[Len(recent_events')].new_subdomains)
                 \cap Range(pre.last_results) = {} ]_vars

\* host 1 was known; the second scan found hosts 2 and 3 as well
C30_Witness ==
    /\ pc["sched"] = "loop"
    /\ Len(recent_events) = 2
    /\ recent_events[2].new_subdomains = <<2, 3>>
    /\ recent_events[2].count = 2
    /\ "d1.com" \in Keys(monitors)
    /\ Get(monitors, "d1.com").last_results = <<1, 2, 3>>

(* C25: the list a poll returns is the content the log has at one instant    *)
(* outside an append-and-trim: it is the log as it is when the read runs,    *)
(* it never has more than 200 entries, and its last entry is the last event  *)
(* whose append was completed by its trim; it is a copy, so no append or     *)
(* eviction after the poll changes it.                                       *)
C25_ConsistentCopy ==
    [][ /\ polls' = polls + 1 =>
              /\ events' = recent_events
              /\ Len(events') <= 200
              /\ pc["sched"] = "sleep"
              /\ ~shared'
        /\ polls' = polls => events' = events ]_vars

\* the poll returned events 2..201; event 202 was appended and event 2 evicted since
C25_Witness ==
    /\ polls = 1
    /\ Len(events) = 200
    /\ events[1].id = 2
    /\ events[200].id = 201
    /\ recent_events[1].id = 3
    /\ recent_events[200].id = 202
    /\ pc["sched"] = "sleep"

(* C21: the scheduler scans the due monitors one after another.  A scan      *)
(* starts only when no iteration is open (no scan is running, no result is   *)
(* waiting to be stored, persisted or logged), and the steps of an           *)
(* iteration come in the order scan, store update, persist, event append:    *)
(* the next scan of the wake starts only after the event step of the         *)
(* previous one, with the previous result in the store.                      *)
C21_OneScanAtATime ==
    [][ /\ scans' = scans + 1 =>
              /\ pc["sched"] = "loop"
              /\ cur = NoCur /\ all_subs = {} /\ new_assets = <<>> /\ pre = NoM
              /\ pc'["sched"] = "scan"
        /\ pc'["sched"] # pc["sched"] =>
              <<pc["sched"], pc'["sched"]>> \in
                 {<<"sleep", "loop">>, <<"loop", "scan">>, <<"loop", "sleep">>,
                  <<"scan", "open">>, <<"open", "write">>, <<"write", "replace">>,
                  <<"replace", "event">>, <<"event", "loop">>,
                  <<"scan", "sleep">>, <<"write", "sleep">>, <<"replace", "sleep">>}
        /\ ScanStored =>
              /\ cur.domain \in Keys(monitors')
              /\ Range(Get(monitors', cur.domain).last_results) = all_subs'
        /\ next_id' # next_id => (pc["sched"] = "event" /\ pc'["sched"] = "loop")
        /\ (pc["sched"] = "scan") = (cur # NoCur /\ all_subs = {} /\ pre = NoM) ]_vars

\* both monitors were due at the wake: d2.com is being scanned, and the scan of
\* d1.com is stored and logged
C21_Witness ==
    /\ pc["sched"] = "scan"
    /\ cur.domain = "d2.com"
    /\ Len(at_wake) = 2
    /\ at_wake[1] = [domain |-> "d1.com", enabled |-> TRUE]
    /\ "d1.com" \in Keys(monitors)
    /\ Get(monitors, "d1.com").last_results = <<1>>
    /\ Len(recent_events) = 1
    /\ recent_events[1].domain = "d1.com"

(* C26: the event log changes only in the scheduler's add_event step after   *)
(* a scan that found new hosts, and then by the append of one event for the  *)
(* scanned domain, with an eviction only at the cap of 200; no step of an    *)
(* upsert, a delete, a poll or an enrichment request changes it, so the      *)
(* events of a deleted monitor stay in the log.                              *)
C26_LogChangedByScansOnly ==
    [][ /\ (\/ reqs' # reqs \/ pc'["http"] # pc["http"] \/ polls' # polls
            \/ meta_pc' # meta_pc \/ attempts' # attempts) =>
              recent_events' = recent_events
        /\ recent_events' # recent_events =>
              /\ pc["sched"] = "event"
              /\ new_assets # <<>>
              /\ Len(recent_events') >= 1
              /\ recent_events'[Len(recent_events')].domain = cur.domain
              /\ recent_events'[Len(recent_events')].id = next_id
              /\ SubSeq(recent_events', 1, Len(recent_events') - 1) =
                    IF Len(recent_events) = 200 THEN Tail(recent_events)
                    ELSE recent_events ]_vars

\* d1.com was scanned and then deleted: its event is still in the log and is polled
C26_Witness ==
    /\ "d1.com" \notin Keys(monitors)
    /\ ~expect["d1.com"].present
    /\ pc["http"] = "idle"
    /\ file = Dump(monitors)
    /\ Len(recent_events) >= 1
    /\ recent_events[1].domain = "d1.com"
    /\ polls = 1
    /\ events = recent_events

(* C23: hosts found new by a scan whose persist failed are not lost: when a  *)
(* later scan of the domain finds them again and its persist succeeds, they  *)
(* are in the event appended for that scan and in the record's last_new.     *)
C23_LostHostsReportedLater ==
    [][ (pc["sched"] = "event" /\ pc'["sched"] = "loop") =>
            LET again == {h \in all_subs : <<cur.domain, h>> \in lost}
            IN again # {} =>
                  /\ next_id' = next_id + 1
                  /\ again \subseteq Range(recent_events'[Len(recent_events')].new_subdomains)
                  /\ cur.domain \in Keys(monitors) =>
                        again \subseteq Range(Get(monitors, cur.domain).last_new) ]_vars

(* C22: a persistence failure inside a tick ends the tick, without a retry   *)
(* in that tick (the scheduler goes to its wait, and the file is left as it  *)
(* was), and the scheduler keeps running: after the failure it comes to its  *)
(* wait and to a new wake again and again.                                   *)
C22_RunsOnAfterFailure ==
    /\ [][ fails' = fails + 1 =>
              /\ pc'["sched"] = "sleep"
              /\ file' = file
              /\ monitors' = monitors ]_vars
    /\ [](fails > 0 => <>(pc["sched"] = "sleep"))
    /\ [](fails > 0 => <>(pc["sched"] = "loop"))

\* the persist of an earlier tick failed, and the scheduler is in a later wake
C22_Witness ==
    /\ fails = 1
    /\ pc["sched"] = "loop"
    /\ at_wake # <<>>
    /\ file # Dump(monitors)

\* the monitor of d is stored, enabled and due
AwaitsScan(d) ==
    /\ d \in Keys(monitors)
    /\ Get(monitors, d).enabled
    /\ Due(Get(monitors, d), clock)

(* C29: as long as no persist fails, a monitor that is stored, enabled and   *)
(* due (never run, or its interval elapsed) and stays stored and enabled is  *)
(* eventually scanned and gets a last_run that makes it no longer due,       *)
(* whether or not the other monitor is due in the same wake.                 *)
C29_EventuallyScanned ==
    /\ AwaitsScan("d1.com") ~> (~AwaitsScan("d1.com") \/ fails > 0)
    /\ AwaitsScan("d2.com") ~> (~AwaitsScan("d2.com") \/ fails > 0)

(* C31: whenever no store mutation is under way (no request is being        *)
(* handled and the scheduler is not between a scan's update and the end of   *)
(* its save_json), the file describes the records of the in-memory store     *)
(* with the same field values, also after a save_json that failed.           *)
C31_FileMatchesStore ==
    (pc["http"] = "idle" /\ ~InSave("sched")) =>
        IF file.exists
        THEN file.content = "complete" /\ file.data = monitors
        ELSE monitors = <<>>

(* C32: a read with a since that cannot be parsed returns the whole log, as  *)
(* a read without since does, and no error; a read with a since that parses  *)
(* returns, in log order, the events later than since together with every    *)
(* event whose own timestamp cannot be parsed.                               *)
C32_UnparseableTolerated ==
    polls = 1 =>
        /\ since.kind = "bad" =>
              /\ events = recent_events
              /\ events = get_events_since(recent_events, NoSince)
        /\ \A i \in 1..Len(recent_events) :
              recent_events[i].timestamp = Unparseable =>
                 \E k \in 1..Len(events) : events[k] = recent_events[i]
        /\ since.kind = "ts" =>
              LET keep == {i \in 1..Len(recent_events) :
                              \/ recent_events[i].timestamp = Unparseable
                              \/ recent_events[i].timestamp > since.val}
              IN /\ Len(events) = Cardinality(keep)
                 /\ \A k \in 1..Len(events) :
                       \E i \in keep : /\ events[k] = recent_events[i]
                                       /\ Cardinality({j \in keep : j < i}) = k - 1

\* since is 1:00; the log has an event of 0:00, one without a readable
\* timestamp and one of 1:00: only the second is returned
C32_Witness ==
    /\ polls = 1
    /\ since = Since(2)
    /\ Len(recent_events) = 3
    /\ recent_events[1].timestamp = 0
    /\ recent_events[2].timestamp = Unparseable
    /\ recent_events[3].timestamp = 2
    /\ events = <<recent_events[2]>>

====
